---- MODULE Spec2Model ----
(***************************************************************************)
(* State-machine model of the blockchain-query gateway:                    *)
(*   bitcoin_info.py  - rate_limit, handle_response, AddressService.get,   *)
(*                      TransactionService.get                             *)
(*   db/database.py   - CacheManager.session_scope / put / get             *)
(*   db/model/cache.py- the cache table and its constraints                *)
(*   server.py        - ServerApp: limiter, routes, error handlers         *)
(***************************************************************************)
EXTENDS Integers, Sequences, FiniteSets, TLC

VARIABLES
    hasLimiter,   \* Service._limiter is a Limiter (ServerApp) or None (test fixture)
    hits,         \* the limiter's storage: hits[client][endpoint] in the current window
    rows,         \* the rows of table "cache"
    last,         \* record of the most recent operation and of the calls it made
    admitted,     \* admitted[client][endpoint]: lookups admitted in the current window
    inflight,     \* inflight[p]: the lookup that worker p is serving, step by step
    sess          \* the session of the session_scope in progress

vars == <<hasLimiter, hits, rows, last, admitted, inflight, sess>>

----------------------------------------------------------------------------
(* Bounds of the model *)

\* lookups a client may still send to one endpoint after its window's quota is used up
MaxRejects == 1

Clients == {"c1"}
\* all remote addresses the limiter keeps a count for
AllClients == {"c1", "c2"}
\* request-serving threads
Workers == {1, 2}
Ops == {"address", "transaction"}
NonEmptyKeys == {"k1"}
Keys == {""} \union NonEmptyKeys

----------------------------------------------------------------------------
(* Python values *)

\* Python's None
None == [none |-> TRUE]

\* the empty dict {}
EmptyDict == <<>>

\* len(d) of a dict
DictLen(d) == Cardinality(DOMAIN d)

\* d.get(k, default)
DictGet(d, k, default) == IF k \in DOMAIN d THEN d[k] ELSE default

\* truth value of an object that is None or a dict
Truthy(v) == v # None /\ DictLen(v) > 0

----------------------------------------------------------------------------
(* The upstream provider: what requests.get / raise_for_status / json can do *)

UpstreamStatuses == {400, 403, 404, 500, 503}

AddressPayloads ==
    << EmptyDict,
       [final_balance |-> 100000, n_tx |-> 5],
       [final_balance |-> 0, n_tx |-> 0],
       [n_tx |-> 5] >>

TxPayloads(key) ==
    << EmptyDict,
       [hash |-> key, fee |-> 100, tx_index |-> 1, time |-> 1630000000,
        inputs |-> << [prev_out |-> [addr |-> "a1", value |-> 50000]] >>,
        out |-> << [addr |-> "a2", value |-> 49900] >>],
       [hash |-> key, fee |-> 0, tx_index |-> 2, time |-> 1630000001,
        inputs |-> << [script |-> "cb"], [prev_out |-> [value |-> 7]] >>,
        out |-> << [value |-> 625], [addr |-> "a2", value |-> 1] >>],
       [hash |-> key, fee |-> 5, tx_index |-> 3, time |-> 1630000002],
       [fee |-> 100] >>

Payloads(op, key) == IF op = "address" THEN AddressPayloads ELSE TxPayloads(key)

\* One outcome of the outbound request of Service.retrieve
UpOk(data)       == [kind |-> "ok", status |-> 200, data |-> data]
UpHttpError(s)   == [kind |-> "http_error", status |-> s, data |-> EmptyDict]
UpTransportError == [kind |-> "transport_error", status |-> 0, data |-> EmptyDict]
UpNone           == [kind |-> "none", status |-> 0, data |-> EmptyDict]

UpstreamOutcomes(op, key) ==
    {UpOk(Payloads(op, key)[i]) : i \in DOMAIN Payloads(op, key)}
        \union {UpHttpError(s) : s \in UpstreamStatuses}
        \union {UpTransportError}

----------------------------------------------------------------------------
(* db/model/cache.py and db/database.py: the cache table and CacheManager *)

\* Member order of the two result dicts (a dict keeps its insertion order)
AddressFields == <<"address", "balance", "transaction_count">>
TxFields == <<"hash", "fee", "transaction_index", "block_time", "inputs", "outputs">>
ItemFields == <<"address", "value">>

FieldsOf(v) == IF "hash" \in DOMAIN v THEN TxFields ELSE AddressFields

\* The JSON document of a dict: its members, name and value, in order
DumpObject(d, fields) == [i \in DOMAIN fields |-> <<fields[i], d[fields[i]]>>]

\* A JSON object read back as a dict
LoadObject(doc) ==
    [name \in {doc[i][1] : i \in DOMAIN doc} |->
        doc[CHOOSE i \in DOMAIN doc : doc[i][1] = name][2]]

ListFields == {"inputs", "outputs"}

\* Column(JSON), bind side: json.dumps of the value stored in Cache.value
json_dumps(v) ==
    LET flat == [name \in DOMAIN v |->
                    IF name \in ListFields
                    THEN [j \in DOMAIN v[name] |-> DumpObject(v[name][j], ItemFields)]
                    ELSE v[name]]
    IN  DumpObject(flat, FieldsOf(v))

\* Column(JSON), result side: json.loads of the stored document
json_loads(doc) ==
    LET o == LoadObject(doc)
    IN  [name \in DOMAIN o |->
            IF name \in ListFields
            THEN [j \in DOMAIN o[name] |-> LoadObject(o[name][j])]
            ELSE o[name]]

\* Cache(key=key, value=value, type=type); the surrogate id and the two
\* timestamps are columns no operation of the program reads
Cache(key, value, type) == [key |-> key, type |-> type, value |-> json_dumps(value)]

\* key = Column(String, unique=True): the table's only uniqueness constraint
\* a table without the unique constraint
UniqueViolationNone(rs, row) == FALSE

\* key = Column(String, unique=True): the row's key is already in the table
UniqueViolation(rs, row) == \E r \in rs : r.key = row.key

\* session_scope whose commit replaces the rows that stand in the way
session_scope_replace(rs, pending) ==
    [rows |-> {r \in rs : \A row \in pending : r.key # row.key} \union pending,
     exc |-> "none"]

\* session_scope: the body's pending rows are written by session.commit();
\* a failure there is rolled back and re-raised
session_scope(rs, pending) ==
    IF \E row \in pending : UniqueViolation(rs, row)
    THEN [rows |-> rs, exc |-> "IntegrityError"]
    ELSE [rows |-> rs \union pending, exc |-> "none"]

\* CacheManager.put: session.add(Cache(...)) inside session_scope
CacheManager_put(rs, key, value, type) == session_scope(rs, {Cache(key, value, type)})

\* CacheManager.get: query(Cache).filter_by(key=key, type=type).first()
CacheManager_get(rs, key, type) ==
    LET found == {r \in rs : r.key = key /\ r.type = type}
    IN  IF found = {} THEN None ELSE json_loads((CHOOSE r \in found : TRUE).value)

----------------------------------------------------------------------------
(* bitcoin_info.py: the two services *)

\* @rate_limit("10 per minute") on AddressService.get
AddressLimit == 10
\* @rate_limit("5 per minute") on TransactionService.get
TransactionLimit == 5

\* the two limit strings exchanged
QuotaSwapped(op) == IF op = "address" THEN TransactionLimit ELSE AddressLimit

Quota(op) == IF op = "address" THEN AddressLimit ELSE TransactionLimit

\* What one call of get did: the exception it raised ("none": it returned
\* result), the table afterwards, and the calls it made on its collaborators
Outcome(exc, result, rs, gets, puts, fetches) ==
    [exc |-> exc, result |-> result, rows |-> rs,
     cacheGets |-> gets, cachePuts |-> puts, fetches |-> fetches]

\* handle_response without its 404 branch
handle_response_no404(up) ==
    IF up.kind = "http_error"
    THEN IF up.status = 400 THEN "BadRequest" ELSE "InternalServerError"
    ELSE IF up.kind = "transport_error" THEN "RequestException"
    ELSE "none"

\* handle_response around Service.retrieve: the exception the call raises for
\* an outcome of the outbound request, "none" when it returns response.json().
\* Only requests.exceptions.HTTPError is caught and translated.
handle_response(up) ==
    IF up.kind = "http_error"
    THEN IF up.status = 400 THEN "BadRequest"
         ELSE IF up.status = 404 THEN "NotFound"
         ELSE "InternalServerError"
    ELSE IF up.kind = "transport_error" THEN "RequestException"
    ELSE "none"

\* the keys that get reads with data[...]
RequiredFields(op) ==
    IF op = "address" THEN {"n_tx", "final_balance"}
    ELSE {"hash", "fee", "tx_index", "time"}

\* address_result of AddressService.get
AddressResult(address, data) ==
    [address |-> address,
     balance |-> data["final_balance"],
     transaction_count |-> data["n_tx"]]

\* an input item read like an output item, from the item itself
InputItemFlat(item) ==
    [address |-> DictGet(item, "addr", "Unknown"),
     value |-> DictGet(item, "value", 0)]

\* one element of tx_result["inputs"]
InputItem(item) ==
    [address |-> DictGet(DictGet(item, "prev_out", EmptyDict), "addr", "Unknown"),
     value |-> DictGet(DictGet(item, "prev_out", EmptyDict), "value", 0)]

\* one element of tx_result["outputs"]
OutputItem(item) ==
    [address |-> DictGet(item, "addr", "Unknown"),
     value |-> DictGet(item, "value", 0)]

\* tx_result of TransactionService.get
TxResult(data) ==
    LET ins == DictGet(data, "inputs", <<>>)
        outs == DictGet(data, "out", <<>>)
    IN  [hash |-> data["hash"],
         fee |-> data["fee"],
         transaction_index |-> data["tx_index"],
         block_time |-> data["time"],
         inputs |-> [i \in DOMAIN ins |-> InputItem(ins[i])],
         outputs |-> [i \in DOMAIN outs |-> OutputItem(outs[i])]]

Normalize(op, key, data) ==
    IF op = "address" THEN AddressResult(key, data) ELSE TxResult(data)

\* the emptiness check left out
IsEmptyPayloadNever(data) == FALSE

\* len(data) == 0
IsEmptyPayload(data) == DictLen(data) = 0

\* FetchAndStore with the failure of put swallowed
FetchAndStoreSwallow(op, key, rs, up) ==
    LET e == handle_response(up)
    IN  IF e # "none" THEN Outcome(e, None, rs, 1, 0, 1)
        ELSE IF IsEmptyPayload(up.data) THEN Outcome("NotFound", None, rs, 1, 0, 1)
        ELSE IF ~(RequiredFields(op) \subseteq DOMAIN up.data)
             THEN Outcome("KeyError", None, rs, 1, 0, 1)
        ELSE LET res == Normalize(op, key, up.data)
                 p == CacheManager_put(rs, key, res, op)
             IN  Outcome("none", res, p.rows, 1, 1, 1)

\* The part of get after the cache miss: retrieve, check, normalize, put
FetchAndStore(op, key, rs, up) ==
    LET e == handle_response(up)
    IN  IF e # "none" THEN Outcome(e, None, rs, 1, 0, 1)
        ELSE IF IsEmptyPayload(up.data) THEN Outcome("NotFound", None, rs, 1, 0, 1)
        ELSE IF ~(RequiredFields(op) \subseteq DOMAIN up.data)
             THEN Outcome("KeyError", None, rs, 1, 0, 1)
        ELSE LET res == Normalize(op, key, up.data)
                 p == CacheManager_put(rs, key, res, op)
             IN  IF p.exc # "none"
                 THEN Outcome(p.exc, None, p.rows, 1, 1, 1)
                 ELSE Outcome("none", res, p.rows, 1, 1, 1)

\* The undecorated AddressService.get / TransactionService.get (op is the
\* entity type, also the type string the service passes to the cache)
get(op, key, rs, up) ==
    IF key = "" THEN Outcome("BadRequest", None, rs, 0, 0, 0)
    ELSE LET cached == CacheManager_get(rs, key, op)
         IN  IF Truthy(cached) THEN Outcome("none", cached, rs, 1, 0, 0)
             ELSE FetchAndStore(op, key, rs, up)

\* Calling the undecorated function f(self, key) with the positional
\* arguments argv: fewer than two cannot be bound
CallF(argv, op, rs, up) ==
    IF Len(argv) # 2 THEN Outcome("TypeError", None, rs, 0, 0, 0)
    ELSE get(op, argv[2], rs, up)

\* every client counted under one key
key_func_shared(c) == "c1"

\* Limiter(key_func=lambda: request.remote_addr): the key a client is counted under
key_func(c) == c

\* a limiter that compares the count before the hit with N inclusively
LimiterHitInclusive(h, c, op) ==
    [hits |-> [h EXCEPT ![key_func(c)][op] = @ + 1],
     admitted |-> h[key_func(c)][op] <= Quota(op)]

\* Limiter.limit("N per minute") in its default fixed-window strategy: the hit
\* is counted first, under the client's key and the endpoint, and the request
\* passes when the count is within N
LimiterHit(h, c, op) ==
    LET n == h[key_func(c)][op] + 1
    IN  [hits |-> [h EXCEPT ![key_func(c)][op] = n], admitted |-> n <= Quota(op)]

\* decorated_function that calls f whatever the limiter answered
decorated_function_unchecked(limiter, h, c, op, args, rs, up) ==
    IF limiter
    THEN [out |-> CallF(<<"self">> \o args, op, rs, up),
          hits |-> LimiterHit(h, c, op).hits, limiterHit |-> TRUE]
    ELSE [out |-> CallF(args, op, rs, up), hits |-> h, limiterHit |-> FALSE]

\* decorated_function of rate_limit, called as decorated_function(self, *args):
\* the result of the call together with the limiter's storage afterwards
decorated_function(limiter, h, c, op, args, rs, up) ==
    IF limiter
    THEN LET a == LimiterHit(h, c, op)
         IN  IF a.admitted
             THEN [out |-> CallF(<<"self">> \o args, op, rs, up),
                   hits |-> a.hits, limiterHit |-> TRUE]
             ELSE [out |-> Outcome("RateLimitExceeded", None, rs, 0, 0, 0),
                   hits |-> a.hits, limiterHit |-> TRUE]
    ELSE [out |-> CallF(args, op, rs, up), hits |-> h, limiterHit |-> FALSE]

----------------------------------------------------------------------------
(* server.py: how Flask answers an exception raised by the view *)

\* the classes of an exception, most specific first (its __mro__)
MRO(exc) ==
    IF exc \in {"BadRequest", "NotFound", "InternalServerError"}
    THEN <<exc, "HTTPException", "Exception">>
    ELSE IF exc = "RateLimitExceeded"
    THEN <<exc, "TooManyRequests", "HTTPException", "Exception">>
    ELSE <<exc, "Exception">>

\* HTTPException.code of an exception, 0 for one that is no HTTPException
ExcCode(exc) ==
    IF exc = "BadRequest" THEN 400
    ELSE IF exc = "NotFound" THEN 404
    ELSE IF exc = "InternalServerError" THEN 500
    ELSE IF exc = "RateLimitExceeded" THEN 429
    ELSE 0

\* @errorhandler(400), (404), (500): the status each handler answers with
CodeHandlers == (400 :> 400) @@ (404 :> 404) @@ (500 :> 500)

\* @errorhandler(Exception): handle_exception answers error_response(e, 500)
ClassHandlers == ("Exception" :> 500)

\* The status of the response: Flask picks the handler registered for the
\* exception's code, else the one registered for the first class of its MRO
\* that has one; an HTTPException without handler answers with its own code
ResponseStatus(exc) ==
    IF exc = "none" THEN 200
    ELSE IF ExcCode(exc) \in DOMAIN CodeHandlers THEN CodeHandlers[ExcCode(exc)]
    ELSE IF \E i \in DOMAIN MRO(exc) : MRO(exc)[i] \in DOMAIN ClassHandlers
    THEN ClassHandlers[MRO(exc)[CHOOSE i \in DOMAIN MRO(exc) :
                            /\ MRO(exc)[i] \in DOMAIN ClassHandlers
                            /\ \A j \in 1..(i-1) : MRO(exc)[j] \notin DOMAIN ClassHandlers]]
    ELSE IF ExcCode(exc) # 0 THEN ExcCode(exc)
    ELSE 500

----------------------------------------------------------------------------
(* The state machine *)

NoCall == [kind |-> "none", client |-> "none", op |-> "none", key |-> "",
           value |-> None, exc |-> "none", status |-> 0, result |-> None,
           limiterHit |-> FALSE,
           cacheGets |-> 0, cachePuts |-> 0, fetches |-> 0, up |-> UpNone]

\* the record of a lookup
LookupRecord(kind, c, op, key, status, d, up) ==
    [kind |-> kind, client |-> c, op |-> op, key |-> key, value |-> None,
     exc |-> d.out.exc, status |-> status, result |-> d.out.result,
     limiterHit |-> d.limiterHit,
     cacheGets |-> d.out.cacheGets, cachePuts |-> d.out.cachePuts,
     fetches |-> d.out.fetches,
     up |-> IF d.out.fetches = 0 THEN UpNone ELSE up]

\* a worker that serves no request
Idle == [pc |-> "idle", client |-> "none", op |-> "none", key |-> "",
         missed |-> FALSE, puts |-> 0, res |-> None, exc |-> "none"]

\* no session_scope in progress
NoSession == [state |-> "none", kind |-> "none", key |-> "", type |-> "none",
              value |-> None, pending |-> {}, bodyOk |-> FALSE,
              commitTried |-> FALSE, commits |-> 0, rollbacks |-> 0,
              closes |-> 0, raised |-> "none", result |-> None]

Init ==
    /\ hasLimiter \in BOOLEAN
    /\ hits = [c \in AllClients |-> [op \in Ops |-> 0]]
    /\ rows = {}
    /\ last = NoCall
    /\ admitted = [c \in AllClients |-> [op \in Ops |-> 0]]
    /\ inflight = [p \in Workers |-> Idle]
    /\ sess = NoSession

\* the count of admitted lookups after a lookup of (c, op) that raised exc
Admit(c, op, limiterHit, exc) ==
    IF limiterHit /\ exc # "RateLimitExceeded"
    THEN [admitted EXCEPT ![c][op] = @ + 1]
    ELSE admitted

\* GET /address/<key> or /transaction/<key> from client c, served by ServerApp:
\* the route's string converter only matches a non-empty key
Request(c, op, key, up) ==
    /\ hasLimiter
    /\ hits[c][op] < Quota(op) + MaxRejects
    /\ LET d == decorated_function(hasLimiter, hits, c, op, <<key>>, rows, up)
       IN  /\ hits' = d.hits
           /\ rows' = d.out.rows
           /\ last' = LookupRecord("request", c, op, key, ResponseStatus(d.out.exc), d, up)
           /\ admitted' = Admit(c, op, d.limiterHit, d.out.exc)
    /\ UNCHANGED <<hasLimiter, inflight, sess>>

\* service.get(key) called on a service built without limiter, as the test
\* fixture builds it
Call(op, key, up) ==
    /\ ~hasLimiter
    /\ LET d == decorated_function(hasLimiter, hits, "none", op, <<key>>, rows, up)
       IN  /\ hits' = d.hits
           /\ rows' = d.out.rows
           /\ last' = LookupRecord("call", "none", op, key, 0, d, up)
    /\ UNCHANGED <<hasLimiter, admitted, inflight, sess>>

\* The 60 s window of one (client, endpoint) counter ends: its count expires
WindowElapses(c, op) ==
    /\ hasLimiter
    /\ hits[c][op] > 0
    /\ hits' = [hits EXCEPT ![c][op] = 0]
    /\ last' = [NoCall EXCEPT !.kind = "expire", !.client = c, !.op = op]
    /\ admitted' = [admitted EXCEPT ![c][op] = 0]
    /\ UNCHANGED <<hasLimiter, rows, inflight, sess>>

Next ==
    \/ \E c \in Clients, op \in Ops, key \in NonEmptyKeys :
          \E up \in UpstreamOutcomes(op, key) : Request(c, op, key, up)
    \/ \E op \in Ops, key \in Keys :
          \E up \in UpstreamOutcomes(op, key) : Call(op, key, up)
    \/ \E c \in Clients, op \in Ops : WindowElapses(c, op)

Spec == Init /\ [][Next]_vars

----------------------------------------------------------------------------
(* CacheManager on its own: any caller, any sequence of put and get *)

CacheKeys == {"k1", "k2"}

\* values a caller stores: result dicts of either service
CacheValues ==
    {AddressResult("k1", AddressPayloads[2]),
     AddressResult("k1", AddressPayloads[3]),
     TxResult(TxPayloads("k1")[3])}

\* cache.put(key, value, type)
Put(key, value, type) ==
    LET p == CacheManager_put(rows, key, value, type)
    IN  /\ rows' = p.rows
        /\ last' = [NoCall EXCEPT !.kind = "put", !.key = key, !.op = type,
                                  !.value = value, !.exc = p.exc, !.cachePuts = 1]
        /\ UNCHANGED <<hasLimiter, hits, admitted, inflight, sess>>

\* cache.get(key, type)
Get(key, type) ==
    /\ last' = [NoCall EXCEPT !.kind = "get", !.key = key, !.op = type,
                              !.result = CacheManager_get(rows, key, type),
                              !.cacheGets = 1]
    /\ UNCHANGED <<hasLimiter, hits, rows, admitted, inflight, sess>>

NextCache ==
    \/ \E key \in CacheKeys, value \in CacheValues, type \in Ops : Put(key, value, type)
    \/ \E key \in CacheKeys, type \in Ops : Get(key, type)

SpecCache == Init /\ [][NextCache]_vars

----------------------------------------------------------------------------
(* The normalization of TransactionService.get on its own *)

\* longest inputs / out sequence of a payload
MaxItems == 2

InputItems ==
    {[prev_out |-> [addr |-> "a1", value |-> 5]],
     [prev_out |-> [addr |-> "a2"]],
     [prev_out |-> [value |-> 7]],
     [script |-> "cb"],
     [addr |-> "a1", value |-> 9]}

OutputItems ==
    {[addr |-> "a1", value |-> 5],
     [addr |-> "a2"],
     [value |-> 7],
     [script |-> "x"]}

SeqsUpTo(S, n) == UNION {[1..k -> S] : k \in 0..n}

\* an upstream transaction with the given lists; an absent list is a payload
\* without that key
TxData(ins, outs, hasInputs, hasOut) ==
    [hash |-> "k1", fee |-> 100, tx_index |-> 1, time |-> 1630000000]
        @@ (IF hasInputs THEN [inputs |-> ins] ELSE EmptyDict)
        @@ (IF hasOut THEN [out |-> outs] ELSE EmptyDict)

\* the payloads handed to the normalization
TxInputs ==
    {TxData(ins, outs, hasInputs, hasOut) :
        ins \in SeqsUpTo(InputItems, MaxItems),
        outs \in SeqsUpTo(OutputItems, MaxItems),
        hasInputs \in BOOLEAN, hasOut \in BOOLEAN}

\* a service about to normalize one upstream payload
InitNorm ==
    /\ hasLimiter = FALSE
    /\ hits = [c \in AllClients |-> [op \in Ops |-> 0]]
    /\ rows = {}
    /\ \E data \in TxInputs :
        last = [NoCall EXCEPT !.kind = "payload", !.op = "transaction",
                              !.up = UpOk(data)]
    /\ admitted = [c \in AllClients |-> [op \in Ops |-> 0]]
    /\ inflight = [p \in Workers |-> Idle]
    /\ sess = NoSession

\* tx_result = {...} of TransactionService.get for the payload at hand
NormalizeTx ==
    /\ last.kind = "payload"
    /\ last' = [last EXCEPT !.kind = "normalize",
                            !.result = TxResult(last.up.data)]
    /\ UNCHANGED <<hasLimiter, hits, rows, admitted, inflight, sess>>

NextNorm == NormalizeTx

SpecNorm == InitNorm /\ [][NextNorm]_vars

----------------------------------------------------------------------------
(* The limiter's counters under traffic of two clients on both endpoints *)

\* every lookup finds the cache empty and the upstream without data, so that
\* only the counters move
NextBudget ==
    \/ \E c \in AllClients, op \in Ops : Request(c, op, "k1", UpOk(EmptyDict))
    \/ \E c \in AllClients, op \in Ops : WindowElapses(c, op)

SpecBudget == Init /\ [][NextBudget]_vars

----------------------------------------------------------------------------
(* session_scope statement by statement, under CacheManager.put and get *)

\* what session.commit() or the body's query can raise apart from a
\* constraint violation: the database is unavailable
DbOutcomes == {"none", "OperationalError"}

\* an except clause that re-raises without session.rollback()
ExceptClauseNoRollback(s) == [s EXCEPT !.state = "finally"]

\* except: session.rollback(); raise
ExceptClause(s) ==
    [s EXCEPT !.rollbacks = @ + 1, !.pending = {}, !.state = "finally"]

\* session = self.session(), entering the with block of put or get
SOpen(kind, key, value, type) ==
    /\ sess.state \in {"none", "closed"}
    /\ sess' = [NoSession EXCEPT !.state = "body", !.kind = kind, !.key = key,
                                 !.type = type, !.value = value]
    /\ UNCHANGED <<hasLimiter, hits, rows, last, admitted, inflight>>

\* the with block: session.add(Cache(...)) of put, the query of get
SBody(db) ==
    /\ sess.state = "body"
    /\ sess' = IF db # "none"
               THEN [sess EXCEPT !.raised = db, !.state = "except"]
               ELSE IF sess.kind = "put"
               THEN [sess EXCEPT !.pending = {Cache(sess.key, sess.value, sess.type)},
                                 !.bodyOk = TRUE, !.state = "commit"]
               ELSE [sess EXCEPT !.result = CacheManager_get(rows, sess.key, sess.type),
                                 !.bodyOk = TRUE, !.state = "commit"]
    /\ UNCHANGED <<hasLimiter, hits, rows, last, admitted, inflight>>

\* session.commit()
SCommit(db) ==
    /\ sess.state = "commit"
    /\ LET w == session_scope(rows, sess.pending)
           exc == IF db # "none" THEN db ELSE w.exc
       IN  IF exc = "none"
           THEN /\ rows' = w.rows
                /\ sess' = [sess EXCEPT !.commitTried = TRUE, !.commits = @ + 1,
                                        !.pending = {}, !.state = "finally"]
           ELSE /\ rows' = rows
                /\ sess' = [sess EXCEPT !.commitTried = TRUE, !.raised = exc,
                                        !.state = "except"]
    /\ UNCHANGED <<hasLimiter, hits, last, admitted, inflight>>

\* the except clause
SExcept ==
    /\ sess.state = "except"
    /\ sess' = ExceptClause(sess)
    /\ UNCHANGED <<hasLimiter, hits, rows, last, admitted, inflight>>

\* finally: session.close(); the operation then returns or raises
SFinally ==
    /\ sess.state = "finally"
    /\ sess' = [sess EXCEPT !.closes = @ + 1, !.state = "closed"]
    /\ UNCHANGED <<hasLimiter, hits, rows, last, admitted, inflight>>

NextSession ==
    \/ \E key \in CacheKeys, value \in CacheValues, type \in Ops :
          SOpen("put", key, value, type)
    \/ \E key \in CacheKeys, type \in Ops : SOpen("get", key, None, type)
    \/ \E db \in DbOutcomes : SBody(db)
    \/ \E db \in DbOutcomes : SCommit(db)
    \/ SExcept
    \/ SFinally

SpecSession == Init /\ [][NextSession]_vars

----------------------------------------------------------------------------
(* Lookups served concurrently: the development server handles each request
   on a thread of its own, so the statements of get interleave. One window of
   the limiter is modelled. *)

\* what the upstream answers in this specification
ConcUpstream(op, key) ==
    IF op = "address"
    THEN {UpOk(AddressPayloads[1]), UpOk(AddressPayloads[2]), UpOk(AddressPayloads[3])}
    ELSE {UpOk(TxPayloads(key)[1]), UpOk(TxPayloads(key)[2])}

Finished(w, exc, res) == [w EXCEPT !.pc = "done", !.exc = exc, !.res = res]

\* a request of client c arrives on worker p and passes through the decorator:
\* self._limiter.limit(limit)(f) counts the hit and raises or calls f
CStart(p, c, op, key) ==
    /\ hasLimiter
    /\ inflight[p].pc = "idle"
    /\ hits[c][op] < Quota(op) + MaxRejects
    /\ LET a == LimiterHit(hits, c, op)
           w == [Idle EXCEPT !.client = c, !.op = op, !.key = key]
           exc == IF a.admitted THEN "none" ELSE "RateLimitExceeded"
       IN  /\ hits' = a.hits
           /\ admitted' = Admit(c, op, TRUE, exc)
           /\ inflight' = [inflight EXCEPT ![p] =
                  IF a.admitted THEN [w EXCEPT !.pc = "read"]
                  ELSE Finished(w, exc, None)]
    /\ UNCHANGED <<hasLimiter, rows, last, sess>>

\* the key check and self._cache.get(key, type)
CRead(p) ==
    /\ inflight[p].pc = "read"
    /\ LET w == inflight[p]
           cached == CacheManager_get(rows, w.key, w.op)
       IN  inflight' = [inflight EXCEPT ![p] =
               IF w.key = "" THEN Finished(w, "BadRequest", None)
               ELSE IF Truthy(cached) THEN Finished(w, "none", cached)
               ELSE [w EXCEPT !.pc = "fetch", !.missed = TRUE]]
    /\ UNCHANGED <<hasLimiter, hits, rows, last, admitted, sess>>

\* self.retrieve(url), the emptiness check and the result dict; the upstream
\* answers about the subject asked for
CFetch(p, up) ==
    /\ inflight[p].pc = "fetch"
    /\ up \in ConcUpstream(inflight[p].op, inflight[p].key)
    /\ LET w == inflight[p]
           e == handle_response(up)
       IN  inflight' = [inflight EXCEPT ![p] =
               IF e # "none" THEN Finished(w, e, None)
               ELSE IF IsEmptyPayload(up.data) THEN Finished(w, "NotFound", None)
               ELSE IF ~(RequiredFields(w.op) \subseteq DOMAIN up.data)
                    THEN Finished(w, "KeyError", None)
               ELSE [w EXCEPT !.pc = "put", !.res = Normalize(w.op, w.key, up.data)]]
    /\ UNCHANGED <<hasLimiter, hits, rows, last, admitted, sess>>

\* self._cache.put(key, result, type) and the return
CPut(p) ==
    /\ inflight[p].pc = "put"
    /\ LET w == inflight[p]
           r == CacheManager_put(rows, w.key, w.res, w.op)
       IN  /\ rows' = r.rows
           /\ inflight' = [inflight EXCEPT ![p] =
                  IF r.exc # "none"
                  THEN [Finished(w, r.exc, None) EXCEPT !.puts = 1]
                  ELSE [Finished(w, "none", w.res) EXCEPT !.puts = 1]]
    /\ UNCHANGED <<hasLimiter, hits, last, admitted, sess>>

\* the response is sent and the worker is free again
CReturn(p) ==
    /\ inflight[p].pc = "done"
    /\ inflight' = [inflight EXCEPT ![p] = Idle]
    /\ UNCHANGED <<hasLimiter, hits, rows, last, admitted, sess>>

NextConc ==
    \E p \in Workers :
        \/ \E c \in Clients, op \in Ops, key \in NonEmptyKeys : CStart(p, c, op, key)
        \/ CRead(p)
        \/ \E op \in Ops, key \in NonEmptyKeys :
              \E up \in ConcUpstream(op, key) : CFetch(p, up)
        \/ CPut(p)
        \/ CReturn(p)

SpecConc == Init /\ [][NextConc]_vars

----------------------------------------------------------------------------
(* Properties *)

\* last records a lookup (a served request or a direct call of get)
IsLookup(l) == l.kind \in {"request", "call"}

\* the entry the cache holds for (key, type), None when it holds none
Stored(rs, key, type) == CacheManager_get(rs, key, type)

\* C1: a lookup of a key already cached for its entity type returns the stored
\* value without consulting the rate limiter (the client's count is unchanged)
\* and without an upstream fetch, whatever the state of the client's quota.
C1_CacheFirst ==
    [][(IsLookup(last') /\ Stored(rows, last'.key, last'.op) # None)
        => /\ last'.exc = "none"
           /\ last'.result = Stored(rows, last'.key, last'.op)
           /\ ~last'.limiterHit
           /\ hits' = hits
           /\ last'.fetches = 0]_vars

\* C2: every served lookup is one acquisition attempt of its (client,
\* endpoint); with n attempts already made in the current window it is
\* admitted when n < N and rejected when n >= N (N = 10 for address, 5 for
\* transaction lookups), and the end of the window returns the count to 0, so
\* that the next attempt is admitted again.
C2_QuotaEnforcement ==
    [][/\ (last'.kind = "request") =>
            LET n == hits[last'.client][last'.op]
                N == IF last'.op = "address" THEN 10 ELSE 5
            IN  /\ last'.limiterHit
                /\ hits'[last'.client][last'.op] = n + 1
                /\ (n < N) => (last'.exc # "RateLimitExceeded")
                /\ (n >= N) => (last'.exc = "RateLimitExceeded")
       /\ (last'.kind = "expire") => (hits'[last'.client][last'.op] = 0)]_vars

\* C2 witness: the 11th address lookup of a window has just been rejected
C2_Witness ==
    /\ last.kind = "request"
    /\ last.op = "address"
    /\ last.exc = "RateLimitExceeded"
    /\ hits[last.client]["address"] = 11

\* C3: a served lookup that the rate limiter rejected is answered with
\* status 429, never with 500.
C3_RejectionIs429 ==
    (last.kind = "request" /\ last.exc = "RateLimitExceeded") => (last.status = 429)

\* C4: a lookup with an empty key fails with BadRequest and reads no cache
\* entry, writes none, makes no limiter acquisition and no upstream fetch.
C4_EmptyKeyRejected ==
    (IsLookup(last) /\ last.key = "")
        => /\ last.exc = "BadRequest"
           /\ last.cacheGets = 0
           /\ last.cachePuts = 0
           /\ ~last.limiterHit
           /\ last.fetches = 0

\* C5: a lookup whose outbound request fails at transport level fails with
\* InternalServerError and writes nothing to the cache.
C5_TransportFailure ==
    (IsLookup(last) /\ last.fetches = 1 /\ last.up.kind = "transport_error")
        => (last.exc = "InternalServerError" /\ last.cachePuts = 0)

\* C6: a lookup whose outbound request ends with an HTTP error status fails
\* with BadRequest for 400, NotFound for 404 and InternalServerError for any
\* other status, and leaves the cache as it was.
C6_StatusClassification ==
    [][(IsLookup(last') /\ last'.fetches = 1 /\ last'.up.kind = "http_error")
        => /\ (last'.up.status = 400) => (last'.exc = "BadRequest")
           /\ (last'.up.status = 404) => (last'.exc = "NotFound")
           /\ (last'.up.status \notin {400, 404}) => (last'.exc = "InternalServerError")
           /\ last'.cachePuts = 0
           /\ rows' = rows]_vars

\* C6 witness: a lookup has fetched, got status 503 and failed with
\* InternalServerError
C6_Witness ==
    /\ IsLookup(last)
    /\ last.fetches = 1
    /\ last.up.kind = "http_error"
    /\ last.up.status = 503
    /\ last.exc = "InternalServerError"

\* C7: a lookup of either entity type whose fetch succeeds with an empty
\* payload fails with NotFound (status 404 when served) and writes nothing, so
\* the cache still holds no entry for the key.
C7_EmptyPayload ==
    [][(IsLookup(last') /\ last'.fetches = 1 /\ last'.up.kind = "ok"
            /\ DictLen(last'.up.data) = 0)
        => /\ last'.exc = "NotFound"
           /\ (last'.kind = "request") => (last'.status = 404)
           /\ last'.cachePuts = 0
           /\ rows' = rows
           /\ Stored(rows', last'.key, last'.op) = None]_vars

\* C7 witness: a transaction lookup has fetched an empty payload and failed
\* with NotFound
C7_Witness ==
    /\ IsLookup(last)
    /\ last.op = "transaction"
    /\ last.fetches = 1
    /\ last.up.kind = "ok"
    /\ DictLen(last.up.data) = 0
    /\ last.exc = "NotFound"

\* C8: an address lookup of k that misses the cache and fetches a payload
\* with final_balance b and n_tx n returns {address: k, balance: b,
\* transaction_count: n} and stores exactly that under (k, address) with one
\* put; an address lookup of a k stored before returns the stored result
\* without a fetch.
C8_MissThenHit ==
    [][(IsLookup(last') /\ last'.op = "address")
        => /\ (/\ last'.fetches = 1
               /\ last'.up.kind = "ok"
               /\ {"final_balance", "n_tx"} \subseteq DOMAIN last'.up.data)
                => /\ last'.exc = "none"
                   /\ last'.result = [address |-> last'.key,
                                      balance |-> last'.up.data["final_balance"],
                                      transaction_count |-> last'.up.data["n_tx"]]
                   /\ last'.cachePuts = 1
                   /\ Stored(rows', last'.key, "address") = last'.result
           /\ (Stored(rows, last'.key, "address") # None)
                => /\ last'.exc = "none"
                   /\ last'.result = Stored(rows, last'.key, "address")
                   /\ last'.fetches = 0]_vars

\* C9: a put for (k, type) succeeds whenever the cache holds no entry for
\* (k, type), even when it holds one for k under the other type; afterwards
\* get(k, type) is the value put and the entry of the other type is as before.
C9_TypePartitionsKeys ==
    [][(last'.kind = "put" /\ Stored(rows, last'.key, last'.op) = None)
        => /\ last'.exc = "none"
           /\ Stored(rows', last'.key, last'.op) = last'.value
           /\ \A t \in Ops \ {last'.op} :
                Stored(rows', last'.key, t) = Stored(rows, last'.key, t)]_vars

\* C10: a put for (k, type) that finds an entry for (k, type) replaces its
\* value, one that finds no entry for k at all creates it; either way the put
\* succeeds and get(k, type) is then the value put.
C10_Upsert ==
    [][(/\ last'.kind = "put"
        /\ \/ Stored(rows, last'.key, last'.op) # None
           \/ \A t \in Ops : Stored(rows, last'.key, t) = None)
        => /\ last'.exc = "none"
           /\ Stored(rows', last'.key, last'.op) = last'.value]_vars

C15_PutFailureSurfaced ==
    [][(IsLookup(last') /\ last'.cachePuts = 1
            /\ \E r \in rows : r.key = last'.key)
        => /\ last'.exc = "IntegrityError"
           /\ last'.result = None
           /\ (last'.kind = "request") => (last'.status = 500)
           /\ rows' = rows]_vars

\* C15 witness: a lookup has fetched and normalized, and its put has failed
C15_Witness ==
    /\ last.kind = "request"
    /\ last.fetches = 1
    /\ last.up.kind = "ok"
    /\ last.cachePuts = 1
    /\ last.exc = "IntegrityError"

\* C17: no lookup removes or changes a row of the cache, and a lookup
\* answered from the cache makes exactly one cache read and no cache write.
C17_EntriesPermanent ==
    [][/\ IsLookup(last') => (\A r \in rows : r \in rows')
       /\ (IsLookup(last') /\ last'.exc = "none" /\ last'.fetches = 0)
            => /\ last'.cacheGets = 1
               /\ last'.cachePuts = 0
               /\ rows' = rows
               /\ last'.result = Stored(rows, last'.key, last'.op)]_vars

\* C17 witness: a lookup has been answered from the cache
C17_Witness ==
    /\ IsLookup(last)
    /\ last.exc = "none"
    /\ last.fetches = 0
    /\ last.cacheGets = 1
    /\ Stored(rows, last.key, last.op) = last.result

\* C20: get(key) called on a service built with limiter None has the outcome
\* of the undecorated get for the same key: the same exception or result and
\* the same cache afterwards, for some outcome of the upstream request.
C20_NoLimiterPassThrough ==
    [][(last'.kind = "call")
        => \E up \in UpstreamOutcomes(last'.op, last'.key) :
              LET o == get(last'.op, last'.key, rows, up)
              IN  /\ last'.exc = o.exc
                  /\ last'.result = o.result
                  /\ rows' = o.rows]_vars

\* C16: the inputs and outputs of a transaction result are as long as the
\* payload's "inputs" and "out" lists and in their order; the address and
\* value of input i are those of item i's prev_out, the address and value of
\* output i those of item i itself; a missing address is "Unknown" and a
\* missing value is 0.
C16_TxNormalization ==
    (last.kind = "normalize") =>
        LET d == last.up.data
            ins == IF "inputs" \in DOMAIN d THEN d["inputs"] ELSE <<>>
            outs == IF "out" \in DOMAIN d THEN d["out"] ELSE <<>>
            res == last.result
        IN  /\ DOMAIN res["inputs"] = DOMAIN ins
            /\ DOMAIN res["outputs"] = DOMAIN outs
            /\ \A i \in DOMAIN ins :
                LET src == IF "prev_out" \in DOMAIN ins[i] THEN ins[i]["prev_out"] ELSE EmptyDict
                IN  /\ res["inputs"][i]["address"] =
                        (IF "addr" \in DOMAIN src THEN src["addr"] ELSE "Unknown")
                    /\ res["inputs"][i]["value"] =
                        (IF "value" \in DOMAIN src THEN src["value"] ELSE 0)
            /\ \A i \in DOMAIN outs :
                /\ res["outputs"][i]["address"] =
                    (IF "addr" \in DOMAIN outs[i] THEN outs[i]["addr"] ELSE "Unknown")
                /\ res["outputs"][i]["value"] =
                    (IF "value" \in DOMAIN outs[i] THEN outs[i]["value"] ELSE 0)

\* C16 witness: a result whose first input had no prev_out, whose second
\* input had one with an address, and whose only output had no address
C16_Witness ==
    /\ last.kind = "normalize"
    /\ Len(last.result["inputs"]) = 2
    /\ last.result["inputs"][1] = [address |-> "Unknown", value |-> 0]
    /\ last.result["inputs"][2] = [address |-> "a1", value |-> 5]
    /\ last.result["outputs"] = << [address |-> "Unknown", value |-> 7] >>

\* C19: a request of client c on operation op leaves the count and the
\* admissions of every other (client, operation) pair as they were, and it is
\* rejected exactly when c's own count for op had reached op's quota (10 for
\* address, 5 for transaction), whatever the other pairs' counts are.
C19_IndependentBudgets ==
    [][(last'.kind = "request") =>
        /\ \A c2 \in AllClients, op2 \in Ops :
            (<<c2, op2>> # <<last'.client, last'.op>>) =>
                /\ hits'[c2][op2] = hits[c2][op2]
                /\ admitted'[c2][op2] = admitted[c2][op2]
        /\ (last'.exc = "RateLimitExceeded") <=>
            (hits[last'.client][last'.op] >=
                (IF last'.op = "address" THEN 10 ELSE 5))]_vars

\* C19 witness: c1 has exhausted its address budget and been rejected, and a
\* transaction lookup of c1 and then an address lookup of c2 are admitted
C19_Witness ==
    /\ hits["c1"]["address"] = 11
    /\ admitted["c1"]["transaction"] >= 1
    /\ last.kind = "request"
    /\ last.client = "c2"
    /\ last.op = "address"
    /\ last.limiterHit
    /\ last.exc # "RateLimitExceeded"

\* C18: when put or get has returned or raised, its session has been closed
\* exactly once; commit was attempted exactly when the body raised nothing;
\* the session was committed exactly when nothing was raised, and rolled back
\* once, with the exception raised to the caller, exactly when the body or the
\* commit raised. Before that point the session has not been closed.
C18_ScopedSession ==
    /\ (sess.state = "closed") =>
        /\ sess.closes = 1
        /\ sess.commitTried <=> sess.bodyOk
        /\ (sess.commits = 1) <=> (sess.raised = "none")
        /\ (sess.rollbacks = 1) <=> (sess.raised # "none")
        /\ sess.commits + sess.rollbacks = 1
        /\ sess.pending = {}
    /\ (sess.state \in {"body", "commit", "except", "finally"}) => sess.closes = 0

\* C18 witness: a put whose commit failed on the unique constraint has been
\* rolled back and closed
C18_Witness ==
    /\ sess.state = "closed"
    /\ sess.kind = "put"
    /\ sess.bodyOk
    /\ sess.raised = "IntegrityError"
    /\ sess.rollbacks = 1
    /\ sess.closes = 1

\* C11: when two lookups that run at the same time have both missed the same
\* (key, type) and both have put their result, neither has failed: each has
\* returned the result it normalized, and the cache holds exactly one entry
\* for (key, type), the result of one of the two.
C11_ConcurrentMisses ==
    \A p \in Workers, q \in Workers :
        (/\ p # q
         /\ inflight[p].pc = "done" /\ inflight[q].pc = "done"
         /\ inflight[p].missed /\ inflight[q].missed
         /\ inflight[p].puts = 1 /\ inflight[q].puts = 1
         /\ inflight[p].op = inflight[q].op
         /\ inflight[p].key = inflight[q].key)
        => /\ inflight[p].exc = "none"
           /\ inflight[q].exc = "none"
           /\ Cardinality({r \in rows : r.key = inflight[p].key
                                        /\ r.type = inflight[p].op}) = 1
           /\ CacheManager_get(rows, inflight[p].key, inflight[p].op)
                  \in {inflight[p].res, inflight[q].res}

\* C12: in every reachable state, whatever lookups have run and however their
\* statements have interleaved, the cache table holds at most one row for a
\* (key, type).
C12_UniquePerKeyType ==
    \A r1 \in rows, r2 \in rows :
        (r1.key = r2.key /\ r1.type = r2.type) => r1 = r2

\* C12 witness: two lookups that both missed have both put a result for the
\* same (key, type); the table holds a row for it
C12_Witness ==
    \E p \in Workers, q \in Workers :
        /\ p # q
        /\ inflight[p].puts = 1 /\ inflight[q].puts = 1
        /\ inflight[p].op = inflight[q].op
        /\ inflight[p].key = inflight[q].key
        /\ \E r \in rows : r.key = inflight[p].key /\ r.type = inflight[p].op

====
